---- MODULE Spec2Model ----
(***************************************************************************)
(* Model of examples/plugins/v1/meme-generator/generate_embedded.py: the   *)
(* build-time generator that reads templates.json, probes                  *)
(* assets/templates/<id>/ for config.yml and image files, and writes       *)
(* src/embedded.rs with two match-based lookup functions.                  *)
(***************************************************************************)
EXTENDS Integers, Sequences, FiniteSets, TLC

(* ---------------- bounds of the model ---------------- *)
MaxTemplates == 2       \* longest manifest (number of records in templates.json)
MaxFiles == 2           \* most files under assets/templates/ in one snapshot
MaxRuns == 2            \* invocations of the generator on one snapshot

(* ---------------- names ---------------- *)
\* File names are sequences of characters, so that str.endswith is computed.
CONFIG_YML == <<"c","o","n","f","i","g",".","y","m","l">>
JPG_1 == <<"1",".","j","p","g">>
PNG_A == <<"a",".","p","n","g">>
GIF_B == <<"b",".","g","i","f">>
TXT_A == <<"a",".","t","x","t">>

FileNames == {CONFIG_YML, JPG_1, PNG_A, GIF_B, TXT_A}
Ids == {"a", "b"}

\* Records of templates.json: with an "id" field, or without one.
Records == [id : Ids] \cup [name : {"n"}]

RECURSIVE SeqsUpTo(_, _)
SeqsUpTo(S, n) ==
  IF n = 0 THEN {<<>>}
  ELSE LET shorter == SeqsUpTo(S, n - 1)
       IN  shorter \cup {Append(s, x) : s \in {t \in shorter : Len(t) = n - 1}, x \in S}

\* templates.json: absent, not JSON, or a list of records.
Manifests ==
  {[status |-> "missing", records |-> <<>>], [status |-> "malformed", records |-> <<>>]}
    \cup [status : {"ok"}, records : SeqsUpTo(Records, MaxTemplates)]

(* ---------------- the filesystem snapshot ---------------- *)
\* Permission bits of assets/templates/<id>: "rx" listable and searchable,
\* "r" listable only, "x" searchable only; "missing" when there is no such directory.
Modes == {"missing", "rx", "r", "x"}

Snapshots ==
  {f \in [mode : [Ids -> Modes], files : SUBSET (Ids \X FileNames)] :
      /\ Cardinality(f.files) <= MaxFiles
      /\ \A p \in f.files : f.mode[p[1]] # "missing"}

Children(f, id) == {p[2] : p \in {q \in f.files : q[1] = id}}

\* os.stat on assets/templates/<id>[/<name>]
OsStat(f, path) ==
  LET id == path[3]
  IN  IF Len(path) = 3
      THEN IF f.mode[id] = "missing" THEN "ENOENT" ELSE "ok"
      ELSE IF f.mode[id] = "missing" THEN "ENOENT"
           ELSE IF f.mode[id] = "r" THEN "EACCES"
           ELSE IF path[4] \in Children(f, id) THEN "ok" ELSE "ENOENT"

\* os.path.exists: True iff os.stat succeeds; every OSError becomes False.
OsPathExists(f, path) == OsStat(f, path) = "ok"

\* os.listdir on assets/templates/<id>: the errno, or "ok".
OsListDirStatus(f, path) ==
  LET id == path[3]
  IN  IF f.mode[id] = "missing" THEN "ENOENT"
      ELSE IF f.mode[id] = "x" THEN "EACCES"
      ELSE "ok"

\* The orders in which os.listdir may return the children ("arbitrary order").
Listings(S) ==
  {s \in [1..Cardinality(S) -> S] : \A i, j \in 1..Cardinality(S) : s[i] = s[j] => i = j}

(* ---------------- text of the generated module ---------------- *)
Text(s) == [kind |-> "text", text |-> s, pat |-> <<>>, path |-> <<>>]

config_path(template_id) == <<"assets", "templates", template_id, CONFIG_YML>>
template_dir(template_id) == <<"assets", "templates", template_id>>

ConfigArm(template_id) ==
  [kind |-> "arm", text |-> "include_str", pat |-> <<template_id>>,
   path |-> <<"..">> \o config_path(template_id)]

ImageArm(template_id, file) ==
  [kind |-> "arm", text |-> "include_bytes", pat |-> <<template_id, file>>,
   path |-> <<"..">> \o template_dir(template_id) \o <<file>>]

WildArm == [kind |-> "wild", text |-> "None", pat |-> <<>>, path |-> <<>>]

Header ==
  << Text("// Embed templates.json"),
     Text("pub const TEMPLATES_JSON: &str = include_str!(\"../templates.json\");"),
     Text(""),
     Text("// Embed font data"),
     Text("pub const FONT_DATA: &[u8] = include_bytes!(\"../assets/fonts/TitilliumWeb-Black.ttf\");"),
     Text(""),
     Text("// Function to get template config"),
     Text("pub fn get_template_config(template_id: &str) -> Option<&'static str> {"),
     Text("    match template_id {") >>

ConfigFooterNoWildcard == << Text("    }"), Text("}"), Text("") >>

ConfigFooter == << WildArm, Text("    }"), Text("}"), Text("") >>

ImageHeader ==
  << Text("// Function to get template image"),
     Text("pub fn get_template_image(template_id: &str, image_name: &str) -> Option<&'static [u8]> {"),
     Text("    match (template_id, image_name) {") >>

ImageFooter == << WildArm, Text("    }"), Text("}") >>

EndsWith(s, suffix) ==
  /\ Len(s) >= Len(suffix)
  /\ SubSeq(s, Len(s) - Len(suffix) + 1, Len(s)) = suffix

IsImageNoGif(file) ==
  \/ EndsWith(file, <<".","j","p","g">>)
  \/ EndsWith(file, <<".","p","n","g">>)

\* file.endswith(('.jpg', '.png', '.gif'))
IsImage(file) ==
  \/ EndsWith(file, <<".","j","p","g">>)
  \/ EndsWith(file, <<".","p","n","g">>)
  \/ EndsWith(file, <<".","g","i","f">>)

TemplateIdsReversed(templates) ==
  [k \in 1..Len(templates) |-> templates[Len(templates) + 1 - k].id]

\* template_ids = [t['id'] for t in templates]
TemplateIds(templates) == [k \in 1..Len(templates) |-> templates[k].id]

\* The file that src/embedded.rs holds before the generator runs: the module
\* generated for an empty templates.json.
PreviousContent == Header \o ConfigFooter \o ImageHeader \o ImageFooter

VARIABLES manifest, fs, pc, template_ids, output, i, fileContent, error, log, run

vars == <<manifest, fs, pc, template_ids, output, i, fileContent, error, log, run>>

Init ==
  /\ manifest \in Manifests
  /\ fs \in Snapshots
  /\ pc = "load"
  /\ template_ids = <<>>
  /\ output = <<>>
  /\ i = 1
  /\ fileContent = PreviousContent
  /\ error = "none"
  /\ log = <<>>
  /\ run = 1

Fail(e) == pc' = "failed" /\ error' = e

\* One entry of the trace of filesystem queries: which call, on which
\* template, what it returned, and how many lines had been emitted by then.
Query(op, template_id, ok, listing) ==
  [op |-> op, id |-> template_id, ok |-> ok, listing |-> listing, emitted |-> Len(output)]

\* line 26: if os.path.exists(config_path)
ConfigPresent(f, template_id) == OsPathExists(f, config_path(template_id))

TemplateDirUnchecked(f, template_id) == TRUE

\* line 41: if os.path.exists(template_dir)
TemplateDirPresent(f, template_id) == OsPathExists(f, template_dir(template_id))

\* lines 42-44: the arms appended for one listing
ImageArms(template_id, listing) ==
  LET images == SelectSeq(listing, IsImage)
  IN  [k \in 1..Len(images) |-> ImageArm(template_id, images[k])]

\* The output file opened for writing before the manifest is read.
LoadManifestOpensOutputFirst ==
  /\ pc = "load"
  /\ fileContent' = <<>>
  /\ IF manifest.status # "ok" \/ \E k \in 1..Len(manifest.records) : "id" \notin DOMAIN manifest.records[k]
     THEN Fail("Error") /\ UNCHANGED template_ids
     ELSE /\ template_ids' = TemplateIds(manifest.records)
          /\ pc' = "header"
          /\ UNCHANGED error
  /\ UNCHANGED <<manifest, fs, output, i, log, run>>

\* lines 6-9: open and parse templates.json, collect the ids
LoadManifest ==
  /\ pc = "load"
  /\ IF manifest.status = "missing" THEN Fail("FileNotFoundError") /\ UNCHANGED template_ids
     ELSE IF manifest.status = "malformed" THEN Fail("JSONDecodeError") /\ UNCHANGED template_ids
     ELSE IF \E k \in 1..Len(manifest.records) : "id" \notin DOMAIN manifest.records[k]
          THEN Fail("KeyError") /\ UNCHANGED template_ids
     ELSE /\ template_ids' = TemplateIds(manifest.records)
          /\ pc' = "header"
          /\ UNCHANGED error
  /\ UNCHANGED <<manifest, fs, output, i, fileContent, log, run>>

\* lines 12-21: the fixed head of the module and of get_template_config
EmitHeader ==
  /\ pc = "header"
  /\ output' = Header
  /\ i' = 1
  /\ pc' = "configs"
  /\ UNCHANGED <<manifest, fs, template_ids, fileContent, error, log, run>>

\* lines 24-27: one iteration of the config loop
ConfigStep ==
  /\ pc = "configs"
  /\ i <= Len(template_ids)
  /\ LET template_id == template_ids[i]
         found == ConfigPresent(fs, template_id)
     IN  /\ log' = Append(log, Query("exists_config", template_id, found, <<>>))
         /\ output' = IF found THEN Append(output, ConfigArm(template_id)) ELSE output
  /\ i' = i + 1
  /\ UNCHANGED <<manifest, fs, pc, template_ids, fileContent, error, run>>

\* lines 29-37: close the first match, open the second
ConfigEnd ==
  /\ pc = "configs"
  /\ i > Len(template_ids)
  /\ output' = output \o ConfigFooter \o ImageHeader
  /\ i' = 1
  /\ pc' = "images"
  /\ UNCHANGED <<manifest, fs, template_ids, fileContent, error, log, run>>

\* lines 39-44: one iteration of the image loop; os.listdir raises OSError
\* when the directory cannot be listed, and returns the children in any order
ImageStep ==
  /\ pc = "images"
  /\ i <= Len(template_ids)
  /\ LET template_id == template_ids[i]
         present == TemplateDirPresent(fs, template_id)
         status == OsListDirStatus(fs, template_dir(template_id))
         probe == Query("exists_dir", template_id, present, <<>>)
     IN  IF ~present
         THEN /\ log' = Append(log, probe)
              /\ i' = i + 1
              /\ UNCHANGED <<pc, error, output>>
         ELSE IF status # "ok"
         THEN /\ log' = log \o <<probe, Query("listdir", template_id, FALSE, <<>>)>>
              /\ Fail(IF status = "EACCES" THEN "PermissionError" ELSE "FileNotFoundError")
              /\ UNCHANGED <<i, output>>
         ELSE \E listing \in Listings(Children(fs, template_id)) :
                /\ log' = log \o <<probe, Query("listdir", template_id, TRUE, listing)>>
                /\ output' = output \o ImageArms(template_id, listing)
                /\ i' = i + 1
                /\ UNCHANGED <<pc, error>>
  /\ UNCHANGED <<manifest, fs, template_ids, fileContent, run>>

\* lines 46-48: close the second match
ImageEnd ==
  /\ pc = "images"
  /\ i > Len(template_ids)
  /\ output' = output \o ImageFooter
  /\ pc' = "write"
  /\ UNCHANGED <<manifest, fs, template_ids, i, fileContent, error, log, run>>

\* lines 51-52: open src/embedded.rs for writing and write the joined lines
WriteOutput ==
  /\ pc = "write"
  /\ fileContent' = output
  /\ pc' = "done"
  /\ UNCHANGED <<manifest, fs, template_ids, output, i, error, log, run>>

\* lines 54-55: the script is run again on the same manifest and snapshot;
\* nothing but the files on disk survives from the previous run
Invoke ==
  /\ pc \in {"done", "failed"}
  /\ run < MaxRuns
  /\ run' = run + 1
  /\ pc' = "load"
  /\ template_ids' = <<>>
  /\ output' = <<>>
  /\ i' = 1
  /\ error' = "none"
  /\ log' = <<>>
  /\ UNCHANGED <<manifest, fs, fileContent>>

Next ==
  \/ LoadManifest
  \/ EmitHeader
  \/ ConfigStep
  \/ ConfigEnd
  \/ ImageStep
  \/ ImageEnd
  \/ WriteOutput

\* One invocation of the generator.
Spec == Init /\ [][Next]_vars

NextRerun ==
  \/ Next
  \/ Invoke

\* The generator invoked up to MaxRuns times on one manifest and snapshot.
SpecRerun == Init /\ [][NextRerun]_vars

(* ---------------- the generated lookups ---------------- *)
Some(path) == [kind |-> "Some", path |-> path]
None == [kind |-> "None", path |-> <<>>]
NoArm == [kind |-> "non-exhaustive", path |-> <<>>]

\* The least index of a set of indexes, 0 when there is none.
FirstIndex(hits) ==
  IF hits = {} THEN 0 ELSE CHOOSE k \in hits : \A h \in hits : k <= h

\* The arms of the match that the line `opener` opens: the lines up to the
\* line that closes the match.
MatchBlock(content, opener) ==
  LET start == FirstIndex({k \in DOMAIN content : content[k] = opener})
      stop == FirstIndex({k \in (start + 1)..Len(content) : content[k] = Text("    }")})
  IN  IF start = 0 \/ stop = 0 THEN <<>> ELSE SubSeq(content, start + 1, stop - 1)

\* Rust's match: the first arm whose pattern matches decides.
Lookup(arms, key) ==
  LET k == FirstIndex({j \in DOMAIN arms :
                         arms[j].kind = "wild" \/ (arms[j].kind = "arm" /\ arms[j].pat = key)})
  IN  IF k = 0 THEN NoArm
      ELSE IF arms[k].kind = "wild" THEN None ELSE Some(arms[k].path)

ConfigBlock(content) == MatchBlock(content, Header[Len(Header)])
ImageBlock(content) == MatchBlock(content, ImageHeader[Len(ImageHeader)])

get_template_config(content, template_id) == Lookup(ConfigBlock(content), <<template_id>>)
get_template_image(content, template_id, image_name) ==
  Lookup(ImageBlock(content), <<template_id, image_name>>)

(* ---------------- vocabulary of the properties ---------------- *)
Range(s) == {s[k] : k \in DOMAIN s}
ManifestIds == {manifest.records[k].id : k \in {j \in DOMAIN manifest.records : "id" \in DOMAIN manifest.records[j]}}

\* Keys outside everything the manifest or the snapshot can name.
KeyIds == Ids \cup {"zz"}
KeyNames == FileNames \cup {<<"2",".","j","p","g">>, <<"j","p","g">>}

RecognizedExtensions == {<<".","j","p","g">>, <<".","p","n","g">>, <<".","g","i","f">>}
HasRecognizedExtension(name) ==
  Len(name) >= 4 /\ SubSeq(name, Len(name) - 3, Len(name)) \in RecognizedExtensions

ConfigOnDisk(id) == <<id, CONFIG_YML>> \in fs.files
ConfigRef(id) == <<"..", "assets", "templates", id, CONFIG_YML>>
ImageRef(id, name) == <<"..", "assets", "templates", id, name>>

ArmsOf(content) ==
  LET IsArm(l) == l.kind = "arm"
  IN  SelectSeq(content, IsArm)

WildcardLast(arms) ==
  /\ Len(arms) >= 1
  /\ arms[Len(arms)].kind = "wild"
  /\ \A k \in 1..(Len(arms) - 1) : arms[k].kind = "arm"

\* A directory that is missing, or that can be listed and holds neither
\* config.yml nor an image.
Absent(id) ==
  \/ fs.mode[id] = "missing"
  \/ /\ fs.mode[id] \in {"rx", "r"}
     /\ \A name \in Children(fs, id) : name # CONFIG_YML /\ ~HasRecognizedExtension(name)

LogOf(op) ==
  LET IsOp(q) == q.op = op
  IN  SelectSeq(log, IsOp)

RECURSIVE ListedArms(_)
ListedArms(queries) ==
  IF queries = <<>> THEN <<>>
  ELSE LET q == Head(queries)
           Shown(name) == HasRecognizedExtension(name)
           names == SelectSeq(q.listing, Shown)
       IN  [k \in 1..Len(names) |->
              [kind |-> "arm", text |-> "include_bytes", pat |-> <<q.id, names[k]>>,
               path |-> ImageRef(q.id, names[k])]] \o ListedArms(Tail(queries))

(* ---------------- C1 ---------------- *)
\* C1: the generator run again on the same manifest and the same filesystem
\* snapshot writes exactly the bytes the previous run wrote.
Determinism ==
  [][(pc = "write" /\ pc' = "done" /\ run > 1) => fileContent' = fileContent]_vars

(* ---------------- C2 ---------------- *)
\* C2: the output file never holds two bindings for the same key in one
\* lookup (a colliding manifest ends the run before anything is written).
CollisionDetection ==
  \A j, k \in DOMAIN fileContent :
     (j < k /\ fileContent[j].kind = "arm" /\ fileContent[k].kind = "arm"
            /\ fileContent[j].text = fileContent[k].text)
        => fileContent[j].pat # fileContent[k].pat

PresenceCorrectness ==
  pc = "done" =>
    \A id \in ManifestIds :
       get_template_config(fileContent, id) =
         IF ConfigOnDisk(id) THEN Some(ConfigRef(id)) ELSE None

(* ---------------- C5 ---------------- *)
\* C5: both generated lookups are total: None for every identifier outside
\* the manifest and for every pair that was not resolved, with exactly one
\* wildcard arm, placed last, in each match.
Totality ==
  pc = "done" =>
    /\ WildcardLast(ConfigBlock(fileContent))
    /\ WildcardLast(ImageBlock(fileContent))
    /\ \A id \in KeyIds :
         /\ get_template_config(fileContent, id).kind # "non-exhaustive"
         /\ id \notin ManifestIds => get_template_config(fileContent, id) = None
    /\ \A id \in KeyIds, name \in KeyNames :
         /\ get_template_image(fileContent, id, name).kind # "non-exhaustive"
         /\ ~(id \in ManifestIds /\ <<id, name>> \in fs.files /\ HasRecognizedExtension(name))
              => get_template_image(fileContent, id, name) = None

TotalityWitness ==
  /\ pc = "done"
  /\ ArmsOf(ConfigBlock(fileContent)) # <<>>
  /\ ArmsOf(ImageBlock(fileContent)) # <<>>
  /\ Ids \ ManifestIds # {}

(* ---------------- C6 ---------------- *)
\* C6: get_template_image surfaces (id, name) iff id is in the manifest,
\* its directory exists and name is a child ending in .jpg, .png or .gif.
ExtensionFiltering ==
  pc = "done" =>
    \A id \in KeyIds, name \in KeyNames :
       get_template_image(fileContent, id, name) =
         IF /\ id \in ManifestIds
            /\ fs.mode[id] # "missing"
            /\ <<id, name>> \in fs.files
            /\ HasRecognizedExtension(name)
         THEN Some(ImageRef(id, name))
         ELSE None

ExtensionFilteringWitness ==
  /\ pc = "done"
  /\ \E id \in ManifestIds :
       /\ get_template_image(fileContent, id, GIF_B).kind = "Some"
       /\ <<id, TXT_A>> \in fs.files
       /\ get_template_image(fileContent, id, TXT_A) = None

(* ---------------- C7 ---------------- *)
\* C7: an entity whose directory is missing, or listable and without
\* config.yml and images, is never the entity a run fails on; the run that
\* completes has no binding for it and has probed every manifest entry once.
AbsenceIsNormal ==
  /\ (pc = "failed" /\ template_ids # <<>>) =>
        (error = "PermissionError" /\ ~Absent(template_ids[i]))
  /\ pc = "done" =>
        /\ \A l \in Range(fileContent) :
              l.kind = "arm" => ~Absent(l.pat[1])
        /\ [k \in DOMAIN LogOf("exists_config") |-> LogOf("exists_config")[k].id]
              = [k \in DOMAIN manifest.records |-> manifest.records[k].id]
        /\ [k \in DOMAIN LogOf("exists_dir") |-> LogOf("exists_dir")[k].id]
              = [k \in DOMAIN manifest.records |-> manifest.records[k].id]

AbsenceIsNormalWitness ==
  /\ pc = "done"
  /\ \E j, k \in DOMAIN template_ids :
       /\ fs.mode[template_ids[j]] = "missing"
       /\ \E l \in Range(fileContent) : l.kind = "arm" /\ l.pat[1] = template_ids[k]

(* ---------------- C8 ---------------- *)
\* C8: a run that completes has met no permission error, neither when it
\* probed a config.yml nor when it listed a directory.
UnreadableIsError ==
  pc = "done" =>
    \A id \in ManifestIds :
       /\ OsStat(fs, <<"assets", "templates", id, CONFIG_YML>>) # "EACCES"
       /\ OsListDirStatus(fs, <<"assets", "templates", id>>) # "EACCES"

(* ---------------- C9 ---------------- *)
\* C9: the ids are the manifest's, in document order with duplicates; the
\* first match holds the config bindings in that order, the second match the
\* image bindings grouped by entity in that order, each group in the order
\* the directory listing returned.
EmissionOrder ==
  pc = "done" =>
    LET ids == [k \in DOMAIN manifest.records |-> manifest.records[k].id]
        HasConfig(id) == OsPathExists(fs, <<"assets", "templates", id, CONFIG_YML>>)
        HasDir(id) == fs.mode[id] # "missing"
        withConfig == SelectSeq(ids, HasConfig)
        withDir == SelectSeq(ids, HasDir)
        listed == LogOf("listdir")
    IN  /\ template_ids = ids
        /\ [k \in DOMAIN listed |-> listed[k].id] = withDir
        /\ ArmsOf(ConfigBlock(fileContent)) =
             [k \in DOMAIN withConfig |->
                [kind |-> "arm", text |-> "include_str", pat |-> <<withConfig[k]>>,
                 path |-> ConfigRef(withConfig[k])]]
        /\ ArmsOf(ImageBlock(fileContent)) = ListedArms(listed)
        /\ Len(ArmsOf(fileContent)) =
             Len(ArmsOf(ConfigBlock(fileContent))) + Len(ArmsOf(ImageBlock(fileContent)))

EmissionOrderWitness ==
  /\ pc = "done"
  /\ template_ids = <<"b", "a">>
  /\ Len(ArmsOf(ConfigBlock(fileContent))) + Len(ArmsOf(ImageBlock(fileContent))) >= 2
  /\ \E k \in DOMAIN fileContent : fileContent[k].kind = "arm" /\ fileContent[k].pat[1] = "a"
  /\ \E k \in DOMAIN fileContent : fileContent[k].kind = "arm" /\ fileContent[k].pat[1] = "b"

(* ---------------- C10 ---------------- *)
\* C10: every filesystem query of a run is made before the first line of the
\* generated text is emitted.
ResolveThenEmit ==
  \A k \in DOMAIN log : log[k].emitted = 0

TypeOK ==
  /\ pc \in {"load", "header", "configs", "images", "write", "done", "failed"}
  /\ run \in 1..MaxRuns
  /\ i \in 1..(MaxTemplates + 1)
====
